---- MODULE Spec2Model ----
(***************************************************************************)
(* A model of the synchronisation and caching engine of ochsec/friend:     *)
(* the SQLite message cache (src/src/database.rs), the provider fan-out    *)
(* (src/src/integrations/mod.rs) and the refresh round of the terminal     *)
(* application (src/src/main.rs).                                          *)
(***************************************************************************)
EXTENDS Integers, Sequences, FiniteSets, TLC

(***************************************************************************)
(* Bounds of the model.                                                    *)
(***************************************************************************)
\* Provider-local message ids are 1..MaxId.
MaxId == 2
\* Timestamps are 1..MaxTime.
MaxTime == 2
\* The configured message_limit (MESSAGE_LIMIT) is one of 1..MaxLimit.
MaxLimit == 2
\* A provider call returns at most MaxResp messages.
MaxResp == 1
\* A behaviour holds at most MaxRounds rounds of refresh_messages.
MaxRounds == 2
\* A behaviour holds at most MaxFaults storage errors.
MaxFaults == 1

(***************************************************************************)
(* Option values.  None of an Option<u64> / Option<usize> is -1, None of   *)
(* an Option<String> is the string NoChannel.                              *)
(***************************************************************************)
None == -1
NoChannel == "<none>"

(***************************************************************************)
(* enum MessageSource and enum AttachmentType, and their text forms.       *)
(***************************************************************************)
MessageSource == {"MessageSource::Telegram", "MessageSource::Discord",
                  "MessageSource::Github", "MessageSource::Jira"}

AttachmentType == {"AttachmentType::Image", "AttachmentType::Video",
                   "AttachmentType::Audio", "AttachmentType::Document",
                   "AttachmentType::Other"}

\* format!("{:?}", message.source)
SourceText(s) ==
    CASE s = "MessageSource::Telegram" -> "Telegram"
      [] s = "MessageSource::Discord"  -> "Discord"
      [] s = "MessageSource::Github"   -> "Github"
      [] s = "MessageSource::Jira"     -> "Jira"

\* The match of get_cached_messages on the stored source text; a row with
\* any other text is skipped ("unknown").
ParseSource(t) ==
    CASE t = "Telegram" -> "MessageSource::Telegram"
      [] t = "Discord"  -> "MessageSource::Discord"
      [] t = "Github"   -> "MessageSource::Github"
      [] t = "Jira"     -> "MessageSource::Jira"
      [] OTHER          -> "unknown"

\* format!("{:?}", attachment.file_type)
FileTypeText(t) ==
    CASE t = "AttachmentType::Image"    -> "Image"
      [] t = "AttachmentType::Video"    -> "Video"
      [] t = "AttachmentType::Audio"    -> "Audio"
      [] t = "AttachmentType::Document" -> "Document"
      [] t = "AttachmentType::Other"    -> "Other"

\* A match on lower-case names, which no stored text equals.
ParseFileTypeLowerCase(t) ==
    CASE t = "image"    -> "AttachmentType::Image"
      [] t = "video"    -> "AttachmentType::Video"
      [] t = "audio"    -> "AttachmentType::Audio"
      [] t = "document" -> "AttachmentType::Document"
      [] OTHER          -> "AttachmentType::Other"

\* The match of get_cached_messages on the stored file_type text.
ParseFileType(t) ==
    CASE t = "Image"    -> "AttachmentType::Image"
      [] t = "Video"    -> "AttachmentType::Video"
      [] t = "Audio"    -> "AttachmentType::Audio"
      [] t = "Document" -> "AttachmentType::Document"
      [] OTHER          -> "AttachmentType::Other"

(***************************************************************************)
(* struct Attachment and struct Message.                                   *)
(***************************************************************************)
Attachment(fname, u, ft, sz) ==
    [filename |-> fname, url |-> u, file_type |-> ft, size |-> sz]

Message(i, src, c, ts, a, atts, ch) ==
    [id |-> i, source |-> src, content |-> c, timestamp |-> ts,
     author |-> a, attachments |-> atts, channel_id |-> ch]

\* The composite identity (source, id) of a message.
Identity(m) == <<m.source, m.id>>

(***************************************************************************)
(* Sequence helpers: Vec::extend, Vec::truncate, the stable               *)
(* sort_by(|a, b| b.timestamp.cmp(&a.timestamp)).                          *)
(***************************************************************************)
Min(a, b) == IF a <= b THEN a ELSE b

truncate(s, n) == SubSeq(s, 1, Min(n, Len(s)))

Range(s) == {s[i] : i \in 1..Len(s)}

RECURSIVE SelectSeqBy(_, _)
\* The subsequence of s whose elements are in the set keep.
SelectSeqBy(s, keep) ==
    IF s = <<>> THEN <<>>
    ELSE IF Head(s) \in keep THEN <<Head(s)>> \o SelectSeqBy(Tail(s), keep)
    ELSE SelectSeqBy(Tail(s), keep)

RECURSIVE InsertNewestFirst(_, _)
\* x, which stood before every element of the sorted t, placed so that the
\* result is sorted by timestamp descending and x stays before its equals.
InsertNewestFirst(x, t) ==
    IF t = <<>> THEN <<x>>
    ELSE IF Head(t).timestamp > x.timestamp
         THEN <<Head(t)>> \o InsertNewestFirst(x, Tail(t))
         ELSE <<x>> \o t

\* A list left in the order of arrival.
arrival_order(s) == s

RECURSIVE sort_newest_first(_)
\* `sort_by(|a, b| b.timestamp.cmp(&a.timestamp))`: a stable sort.
sort_newest_first(s) ==
    IF s = <<>> THEN <<>>
    ELSE InsertNewestFirst(Head(s), sort_newest_first(Tail(s)))

\* Whether a list of messages is sorted by timestamp non-increasing.
IsNewestFirst(s) ==
    \A i \in 1..Len(s) : \A j \in 1..Len(s) :
        i < j => s[i].timestamp >= s[j].timestamp

RECURSIVE Flatten(_)
\* The concatenation of a sequence of sequences.
Flatten(ss) == IF ss = <<>> THEN <<>> ELSE Head(ss) \o Flatten(Tail(ss))

(***************************************************************************)
(* The SQLite cache of database.rs.  A database is a record of its three   *)
(* tables:                                                                 *)
(*   messages     a set of rows; the PRIMARY KEY is the column id alone    *)
(*   attachments  the sequence of rows in rowid (AUTOINCREMENT) order      *)
(*   sync_state   a set of rows; the PRIMARY KEY is provider_key           *)
(* Every statement runs on the pool in autocommit mode, so a statement     *)
(* that fails leaves the effects of the statements before it in place.     *)
(***************************************************************************)
EmptyDb == [messages |-> {}, attachments |-> <<>>, sync_state |-> {}]

MessageRow(m) ==
    [id |-> m.id, source |-> SourceText(m.source), content |-> m.content,
     timestamp |-> m.timestamp, author |-> m.author,
     channel_id |-> m.channel_id]

AttachmentRow(mid, a) ==
    [message_id |-> mid, filename |-> a.filename, url |-> a.url,
     file_type |-> FileTypeText(a.file_type), size |-> a.size]

\* The key on which INSERT OR REPLACE INTO messages finds the row to replace.
MessageKey(row) == row.id

\* INSERT OR REPLACE INTO messages (id, source, content, timestamp, author, channel_id)
InsertOrReplaceMessage(rows, m) ==
    {r \in rows : MessageKey(r) # MessageKey(MessageRow(m))} \cup {MessageRow(m)}

\* A cache_messages that leaves the stored attachments in place.
KeepAttachments(atts, mid) == atts

\* DELETE FROM attachments WHERE message_id = ?
DeleteAttachments(atts, mid) ==
    SelectSeqBy(atts, {r \in Range(atts) : r.message_id # mid})

\* INSERT INTO attachments (message_id, filename, url, file_type, size)
InsertAttachment(atts, mid, a) == Append(atts, AttachmentRow(mid, a))

\* The statements cache_messages runs for one message, in order.
MessageStatements(m) ==
    <<[op |-> "replace", msg |-> m, att |-> 0],
      [op |-> "delete", msg |-> m, att |-> 0]>>
    \o [k \in 1..Len(m.attachments) |-> [op |-> "insert", msg |-> m, att |-> k]]

\* The statements cache_messages runs for a list of messages, in order.
CacheStatements(L) == Flatten([i \in 1..Len(L) |-> MessageStatements(L[i])])

ExecStatement(db, st) ==
    CASE st.op = "replace" ->
           [db EXCEPT !.messages = InsertOrReplaceMessage(@, st.msg)]
      [] st.op = "delete" ->
           [db EXCEPT !.attachments = DeleteAttachments(@, st.msg.id)]
      [] st.op = "insert" ->
           [db EXCEPT !.attachments =
               InsertAttachment(@, st.msg.id, st.msg.attachments[st.att])]

RECURSIVE ExecStatements(_, _)
ExecStatements(db, sts) ==
    IF sts = <<>> THEN db
    ELSE ExecStatements(ExecStatement(db, Head(sts)), Tail(sts))

\* A cache write put off: nothing is written and the call reports success.
cache_messages_deferred(db, L, failAt) == [db |-> db, ok |-> TRUE]

\* cache_messages(&messages).  failAt = 0: every statement succeeds and the
\* call returns Ok; failAt = k > 0: statement k fails with a storage error,
\* the `?` returns Err and statements 1..k-1 stay applied.
cache_messages(db, L, failAt) ==
    LET sts == CacheStatements(L)
    IN  IF failAt = 0
        THEN [db |-> ExecStatements(db, sts), ok |-> TRUE]
        ELSE [db |-> ExecStatements(db, SubSeq(sts, 1, failAt - 1)), ok |-> FALSE]

\* The places where cache_messages(L) can fail, and 0 for no failure.
FailPoints(L) == 0..Len(CacheStatements(L))

\* The messages of L whose statements have all run when cache_messages(L)
\* fails at failAt (all of L when failAt = 0).
CompletedUpserts(L, failAt) ==
    IF failAt = 0 THEN L
    ELSE LET done(n) == Len(CacheStatements(SubSeq(L, 1, n))) < failAt
         IN  SubSeq(L, 1, CHOOSE n \in 0..Len(L) :
                              /\ done(n)
                              /\ \A k \in (n + 1)..Len(L) : ~done(k))

RECURSIVE RecordUpserts(_, _)
\* The history of persisted messages after the messages of L were persisted
\* in order: the last message persisted under each identity (source, id).
RecordUpserts(ups, L) ==
    IF L = <<>> THEN ups
    ELSE RecordUpserts({m \in ups : Identity(m) # Identity(Head(L))} \cup {Head(L)},
                       Tail(L))

\* Orders in which SQLite may return rows of equal timestamp for
\* ORDER BY timestamp DESC: a backward scan of idx_messages_timestamp yields
\* them by descending rowid, a sort of a table scan by ascending rowid.
TieOrders == {"rowid_desc", "rowid_asc"}

\* Whether row a comes before row b in ORDER BY timestamp DESC.
RowBefore(a, b, tie) ==
    \/ a.timestamp > b.timestamp
    \/ /\ a.timestamp = b.timestamp
       /\ IF tie = "rowid_desc" THEN a.id > b.id ELSE a.id < b.id

RECURSIVE OrderByTimestampDesc(_, _)
OrderByTimestampDesc(rows, tie) ==
    IF rows = {} THEN <<>>
    ELSE LET first == CHOOSE a \in rows :
                          \A b \in rows \ {a} : RowBefore(a, b, tie)
         IN  <<first>> \o OrderByTimestampDesc(rows \ {first}, tie)

\* SELECT ... FROM messages ORDER BY timestamp DESC [LIMIT l]
SelectMessages(db, limit, tie) ==
    LET all == OrderByTimestampDesc(db.messages, tie)
    IN  IF limit = None THEN all ELSE truncate(all, limit)

\* SELECT filename, url, file_type, size FROM attachments WHERE message_id = ?
SelectAttachments(db, mid) ==
    LET rows == SelectSeqBy(db.attachments,
                            {r \in Range(db.attachments) : r.message_id = mid})
    IN  [k \in 1..Len(rows) |->
            Attachment(rows[k].filename, rows[k].url,
                       ParseFileType(rows[k].file_type), rows[k].size)]

\* get_cached_messages(limit), when no statement of it fails.
get_cached_messages(db, limit, tie) ==
    LET rows == SelectMessages(db, limit, tie)
        known == SelectSeqBy(rows, {r \in Range(rows) :
                                       ParseSource(r.source) # "unknown"})
    IN  [k \in 1..Len(known) |->
            Message(known[k].id, ParseSource(known[k].source), known[k].content,
                    known[k].timestamp, known[k].author,
                    SelectAttachments(db, known[k].id), known[k].channel_id)]

\* SELECT ... FROM messages WHERE timestamp > ? ORDER BY timestamp DESC [LIMIT l]
SelectMessagesSince(db, since, limit, tie) ==
    LET all == OrderByTimestampDesc({r \in db.messages : r.timestamp > since}, tie)
    IN  IF limit = None THEN all ELSE truncate(all, limit)

\* A read by timestamp that loads each message's attachments.
get_messages_since_full(db, since, limit, tie) ==
    LET rows == SelectMessagesSince(db, since, limit, tie)
        known == SelectSeqBy(rows, {r \in Range(rows) :
                                       ParseSource(r.source) # "unknown"})
    IN  [k \in 1..Len(known) |->
            Message(known[k].id, ParseSource(known[k].source), known[k].content,
                    known[k].timestamp, known[k].author,
                    SelectAttachments(db, known[k].id), known[k].channel_id)]

\* get_messages_since(since, limit), when the query succeeds: the
\* attachments are `vec![]`.
get_messages_since(db, since, limit, tie) ==
    LET rows == SelectMessagesSince(db, since, limit, tie)
        known == SelectSeqBy(rows, {r \in Range(rows) :
                                       ParseSource(r.source) # "unknown"})
    IN  [k \in 1..Len(known) |->
            Message(known[k].id, ParseSource(known[k].source), known[k].content,
                    known[k].timestamp, known[k].author, <<>>,
                    known[k].channel_id)]

\* u64 and i64 are modelled IdBits wide.
IdBits == 3

\* `last_message_id as i64`: the two's complement reading of a u64.
as_i64(v) == IF v < 2 ^ (IdBits - 1) THEN v ELSE v - 2 ^ IdBits

\* `r.get::<i64, _>("last_message_id") as u64`
as_u64(i) == IF i < 0 THEN i + 2 ^ IdBits ELSE i

\* get_last_message_id(provider_key), when the query succeeds: None when
\* there is no row.
get_last_message_id(db, key) ==
    IF \E r \in db.sync_state : r.provider_key = key
    THEN as_u64((CHOOSE r \in db.sync_state : r.provider_key = key).last_message_id)
    ELSE None

\* An INSERT INTO sync_state that replaces no row.
insert_sync_state(db, key, last) ==
    [db EXCEPT !.sync_state =
        @ \cup {[provider_key |-> key, last_message_id |-> as_i64(last)]}]

\* An incremental call that always asks for a bootstrap.
AlwaysBootstrap(db, key, read_ok) == None

\* cache.get_last_message_id(&provider_key).await.unwrap_or(None): the
\* watermark handed to fetch_messages_since_id; None when the read fails.
WatermarkArgument(db, key, read_ok) ==
    IF read_ok THEN get_last_message_id(db, key) ELSE None

\* update_sync_state(provider_key, last_message_id), when it succeeds:
\* INSERT OR REPLACE INTO sync_state.  (last_sync is not modelled.)
update_sync_state(db, key, last) ==
    [db EXCEPT !.sync_state =
        {r \in @ : r.provider_key # key}
        \cup {[provider_key |-> key, last_message_id |-> as_i64(last)]}]

(***************************************************************************)
(* Providers.  A provider's messages carry its source; Discord messages    *)
(* carry the channel of their provider and may carry attachments, Jira     *)
(* messages carry no channel and no attachments.                           *)
(***************************************************************************)
Discord == "MessageSource::Discord"
Jira == "MessageSource::Jira"

DiscordC1 == [provider_key |-> "discord_c1", source |-> Discord, channel_id |-> "c1"]
DiscordC2 == [provider_key |-> "discord_c2", source |-> Discord, channel_id |-> "c2"]
JiraHost == [provider_key |-> "jira_host", source |-> Jira, channel_id |-> NoChannel]

\* The provider lists App::new may register (Discord channels, then Jira).
ProviderConfigs ==
    {<<DiscordC1>>, <<DiscordC1, DiscordC2>>, <<DiscordC1, JiraHost>>}

Picture == Attachment("a.png", "https://cdn/a.png", "AttachmentType::Image", 7)
Notes == Attachment("n.txt", "https://cdn/n.txt", "AttachmentType::Document", None)

\* The (content, author, attachments) a message of provider p carries.
Payload(p) ==
    IF p.source = Discord
    THEN [content |-> "pic", author |-> "bob", attachments |-> <<Picture>>]
    ELSE [content |-> "PROJ-1: fix (Status: Open)", author |-> "Unassigned",
          attachments |-> <<>>]

\* The messages provider p may return: parse_message / parse_issue.
ProviderMessages(p) ==
    {Message(i, p.source, Payload(p).content, ts, Payload(p).author,
             Payload(p).attachments, p.channel_id) :
        i \in 1..MaxId, ts \in 1..MaxTime}

\* Result<Vec<Message>, _> of a provider call.
Ok(list) == [ok |-> TRUE, msgs |-> list]
Err == [ok |-> FALSE, msgs |-> <<>>]

RECURSIVE ListsUpTo(_, _)
\* The lists of at most n elements of S.
ListsUpTo(S, n) ==
    IF n = 0 THEN {<<>>}
    ELSE LET shorter == ListsUpTo(S, n - 1)
         IN  shorter \cup
             {Append(l, m) : l \in {x \in shorter : Len(x) = n - 1}, m \in S}

DistinctIds(l) == \A i, j \in 1..Len(l) : i # j => l[i].id # l[j].id

\* What one call of provider p (fetch_messages or fetch_messages_since_id)
\* may return: an error, or a list of its messages, each id once.
Responses(p) ==
    {Err} \cup {Ok(l) : l \in {x \in ListsUpTo(ProviderMessages(p), MaxResp) :
                                  DistinctIds(x)}}

RECURSIVE FanOuts(_)
\* The results of one fan-out over the providers provs: join_all keeps the
\* providers' order.
FanOuts(provs) ==
    IF provs = <<>> THEN {<<>>}
    ELSE {<<r>> \o rest : r \in Responses(Head(provs)), rest \in FanOuts(Tail(provs))}

\* The orders in which the n concurrent calls of a fan-out may complete.
Orders(n) ==
    {o \in [1..n -> 1..n] : \A i \in 1..n : \A j \in 1..n : i # j => o[i] # o[j]}

\* Outputs gathered in the order of completion.
as_completed(res, order) == [k \in 1..Len(res) |-> res[order[k]]]

RECURSIVE FillSlots(_, _, _)
\* Each output stored, as its call completes, in the slot of its future.
FillSlots(slots, res, order) ==
    IF Len(order) = 0 THEN slots
    ELSE FillSlots([slots EXCEPT ![order[1]] = res[order[1]]], res,
                   [k \in 1..(Len(order) - 1) |-> order[k + 1]])

\* future::join_all(futures).await: the outputs in the order of the futures,
\* whatever the order in which they complete.
join_all(res, order) == FillSlots([p \in 1..Len(res) |-> Err], res, order)

\* A fan-out that one failing provider empties.
CollectAllOrNothing(res) ==
    IF \E p \in 1..Len(res) : ~res[p].ok THEN <<>>
    ELSE Flatten([p \in 1..Len(res) |-> res[p].msgs])

\* The loop `for result in results { if let Ok(messages) = result {
\* all_messages.extend(messages) } }`.
CollectOk(res) ==
    Flatten([p \in 1..Len(res) |-> IF res[p].ok THEN res[p].msgs ELSE <<>>])

\* A full fetch that truncates the pool before it sorts it.
fetch_all_truncate_first(res, limit) ==
    IF limit = None THEN sort_newest_first(CollectOk(res))
    ELSE sort_newest_first(truncate(CollectOk(res), limit))

\* fetch_all_messages(since, limit): res are the results of the providers'
\* fetch_messages calls.
fetch_all_messages(res, limit) ==
    LET all_messages == sort_newest_first(CollectOk(res))
    IN  IF limit = None THEN all_messages ELSE truncate(all_messages, limit)

\* fetch_incremental_messages(cache, limit): res are the results of the
\* providers' fetch_messages_since_id calls.
fetch_incremental_messages(res, limit) ==
    LET all_messages == sort_newest_first(CollectOk(res))
    IN  IF limit = None THEN all_messages ELSE truncate(all_messages, limit)

(***************************************************************************)
(* The type of an attachment.  A file name is the sequence of its parts    *)
(* between dots ("a.b.Jpg" is <<"a", "b", "Jpg">>), a content type the     *)
(* sequence of its parts between slashes; an absent content_type is the    *)
(* empty sequence, which no split yields.                                  *)
(***************************************************************************)
NoContentType == <<>>

\* The content types and the file names of the attachments parsed.
ContentTypes ==
    {NoContentType, <<"image", "png">>, <<"IMAGE", "PNG">>, <<"Image", "jpeg">>,
     <<"video", "mp4">>, <<"Video", "mp4">>, <<"audio", "ogg">>,
     <<"AUDIO", "ogg">>, <<"text", "plain">>, <<"Text", "plain">>,
     <<"application", "pdf">>, <<"font", "woff">>, <<"">>}

FileNames ==
    {<<"attachment">>, <<"a", "png">>, <<"a", "PNG">>, <<"a", "b", "Jpg">>,
     <<"clip", "mp4">>, <<"clip", "MOV">>, <<"song", "mp3">>, <<"song", "OGG">>,
     <<"cv", "pdf">>, <<"cv", "PDF">>, <<"notes", "txt">>, <<"x", "zip">>}

\* `match content_type.split('/').next().unwrap_or("")`
MimeMatch(major) ==
    CASE major = "image" -> "AttachmentType::Image"
      [] major = "video" -> "AttachmentType::Video"
      [] major = "audio" -> "AttachmentType::Audio"
      [] major \in {"text", "application"} -> "AttachmentType::Document"
      [] OTHER -> "AttachmentType::Other"

\* `match filename.split('.').last().unwrap_or("")`
ExtensionMatch(ext) ==
    CASE ext \in {"jpg", "jpeg", "png", "gif", "webp"} -> "AttachmentType::Image"
      [] ext \in {"mp4", "avi", "mov", "mkv"} -> "AttachmentType::Video"
      [] ext \in {"mp3", "wav", "ogg"} -> "AttachmentType::Audio"
      [] ext \in {"pdf", "doc", "docx", "txt"} -> "AttachmentType::Document"
      [] OTHER -> "AttachmentType::Other"

\* The file_type DiscordProvider::parse_message gives an attachment.
discord_file_type(content_type, filename) ==
    IF content_type # NoContentType
    THEN MimeMatch(content_type[1])
    ELSE ExtensionMatch(filename[Len(filename)])

\* The file_type TelegramProvider::convert_message gives a document.
telegram_file_type(filename) == ExtensionMatch(filename[Len(filename)])

(***************************************************************************)
(* struct App (main.rs) and the position of a refresh_messages call.       *)
(***************************************************************************)
VARIABLES
    providers,          \* self.integration_manager.providers
    message_limit,      \* self.message_limit
    cache,              \* self.cache: the database
    messages,           \* self.messages: the displayed list
    selected_message,   \* self.selected_message: None or a 0-based index
    input_mode,         \* self.input_mode
    input_text,         \* self.input_text
    elapsed,            \* self.last_refresh.elapsed(), in seconds, capped
    is_refreshing,      \* self.is_refreshing
    pc,                 \* where the round of refresh_messages stands
    results,            \* the results of the round's incremental fan-out
    asked,              \* history: the watermark each provider was called with
    new_messages,       \* refresh_messages: new_messages
    messages_to_use,    \* refresh_messages: messages_to_use
    full_results,       \* the results of the fallback's full fan-out
    cache_ok,           \* whether the round's cache_messages returned Ok
    sync_idx,           \* the provider the sync-state loop stands at
    cache_before,       \* history: the database when the round began
    in_flight,          \* history: rounds begun and not yet completed
    rounds,             \* history: rounds begun
    faults,             \* history: storage errors so far
    upserted,           \* history: per identity, the message last persisted
    sent_to,            \* history: the provider the last send called, or 0
    parsed,             \* history: the raw attachment last parsed and its type
    last_op             \* history: the last App operation and its outcome

config_vars == <<providers, message_limit>>
app_vars == <<messages, selected_message, input_mode, input_text, elapsed,
              is_refreshing>>
round_vars == <<pc, results, asked, new_messages, messages_to_use, full_results,
                cache_ok, sync_idx, cache_before, in_flight, rounds>>
vars == <<config_vars, cache, app_vars, round_vars, faults, upserted, sent_to,
          parsed, last_op>>

\* Duration::from_secs(30) of should_refresh.
RefreshSecs == 30
\* The clock advances in steps of TickSecs seconds.
TickSecs == RefreshSecs

NoResults == <<>>

\* No attachment has been parsed.
NotParsed ==
    [by |-> "none", content_type |-> NoContentType, filename |-> <<>>,
     file_type |-> "AttachmentType::Other"]

\* `let selected_message = if messages.is_empty() { None } else { Some(0) }`
InitialSelection(msgs) == IF msgs = <<>> THEN None ELSE 0

\* App::new on a fresh database: get_cached_messages returns no message, so
\* the displayed list is fetch_all_messages(None, Some(message_limit)).
Init ==
    /\ providers \in ProviderConfigs
    /\ message_limit \in 0..MaxLimit
    /\ cache = EmptyDb
    /\ \E res \in FanOuts(providers), order \in Orders(Len(providers)) :
           messages = fetch_all_messages(join_all(res, order), message_limit)
    /\ selected_message = InitialSelection(messages)
    /\ input_mode = FALSE
    /\ input_text = ""
    /\ elapsed = 0
    /\ is_refreshing = FALSE
    /\ pc = "idle"
    /\ results = NoResults
    /\ asked = <<>>
    /\ new_messages = <<>>
    /\ messages_to_use = <<>>
    /\ full_results = NoResults
    /\ cache_ok = TRUE
    /\ sync_idx = 0
    /\ cache_before = EmptyDb
    /\ in_flight = 0
    /\ rounds = 0
    /\ faults = 0
    /\ upserted = {}
    /\ sent_to = 0
    /\ parsed = NotParsed
    /\ last_op = "new"

\* The configuration of the application specification: one Discord channel,
\* message_limit = MaxLimit.
InitApp ==
    /\ Init
    /\ providers = <<DiscordC1>>
    /\ message_limit = MaxLimit

\* Whether a storage call of this step succeeds: it may fail while the
\* behaviour's storage errors are below MaxFaults.
StorageOutcomes == IF faults < MaxFaults THEN {TRUE, FALSE} ELSE {TRUE}

Fault(ok) == IF ok THEN faults ELSE faults + 1

\* The storage errors among the outcomes reads.
Failures(reads) == Cardinality({p \in 1..Len(reads) : ~reads[p]})

\* The outcomes of the n watermark reads of a fan-out: a read may fail while
\* the behaviour's storage errors are below MaxFaults.
ReadOutcomes(n) ==
    {reads \in [1..n -> BOOLEAN] : faults + Failures(reads) <= MaxFaults}

\* The calls that never take the guard of refresh_messages.
NeverSuppressed(flag) == FALSE

\* `if self.is_refreshing`: whether a call of refresh_messages returns at once.
RefreshSuppressed(flag) == flag

\* An early return that restarts the refresh clock.
EarlyReturnResetsClock ==
    /\ elapsed' = 0
    /\ UNCHANGED <<cache, messages, selected_message, is_refreshing, round_vars,
                   faults, upserted>>

\* `return Ok(()); // Avoid multiple concurrent refreshes`
EarlyReturn ==
    UNCHANGED <<cache, messages, selected_message, elapsed, is_refreshing,
                round_vars, faults, upserted>>

\* The head of refresh_messages: the guard, then `self.is_refreshing = true`
\* and the incremental fan-out.  trigger names the caller; input_mode and
\* input_text are the caller's.
RefreshCall(trigger) ==
    IF RefreshSuppressed(is_refreshing)
    THEN /\ last_op' = "refresh_suppressed"
         /\ EarlyReturn
    ELSE /\ rounds < MaxRounds
         /\ is_refreshing' = TRUE
         /\ \E res \in FanOuts(providers), order \in Orders(Len(providers)),
               reads \in ReadOutcomes(Len(providers)) :
                /\ asked' = [p \in 1..Len(providers) |->
                                 WatermarkArgument(cache, providers[p].provider_key,
                                                   reads[p])]
                /\ results' = join_all(res, order)
                /\ new_messages' =
                       fetch_incremental_messages(results', message_limit)
                /\ faults' = faults + Failures(reads)
         /\ pc' = "fetched"
         /\ messages_to_use' = <<>>
         /\ full_results' = NoResults
         /\ cache_ok' = TRUE
         /\ sync_idx' = 0
         /\ cache_before' = cache
         /\ in_flight' = in_flight + 1
         /\ rounds' = rounds + 1
         /\ last_op' = trigger
         /\ UNCHANGED <<cache, messages, selected_message, elapsed, upserted>>

\* The rounds that never fall back.
NeverFallsBack(new) == FALSE

\* `if new_messages.is_empty()`: whether the round falls back to a full fetch.
NeedsFallback(new) == new = <<>>

\* A full fetch that persists what it fetched.
FetchAllSeedsCache(db, fetched) == cache_messages(db, fetched, 0).db

\* The database after fetch_all_messages, which is handed no cache: the
\* database before it.
CacheAfterFetchAll(db, fetched) == db

\* `self.integration_manager.fetch_all_messages(None, Some(self.message_limit))`
Fallback ==
    /\ pc = "fetched"
    /\ NeedsFallback(new_messages)
    /\ \E res \in FanOuts(providers), order \in Orders(Len(providers)) :
           /\ full_results' = join_all(res, order)
           /\ messages_to_use' = fetch_all_messages(full_results', message_limit)
    /\ cache' = CacheAfterFetchAll(cache, messages_to_use')
    /\ pc' = "install"
    /\ UNCHANGED <<config_vars, sent_to, parsed, app_vars, results, asked, new_messages, cache_ok,
                   sync_idx, cache_before, in_flight, rounds, faults, upserted,
                   last_op>>

\* A merge that truncates the pool before it sorts it.
merge_truncate_first(cached, new, limit) ==
    sort_newest_first(truncate(cached \o new, limit))

\* The merge of the `else` branch: the cache's top-limit snapshot (empty
\* when the read fails: unwrap_or_default), extended by the new messages,
\* sorted and truncated.
MergeWithCache(cached, new, limit) ==
    truncate(sort_newest_first(cached \o new), limit)

Merge ==
    /\ pc = "fetched"
    /\ ~NeedsFallback(new_messages)
    /\ \E read_ok \in StorageOutcomes, tie \in TieOrders :
           LET cached == IF read_ok
                         THEN get_cached_messages(cache, message_limit, tie)
                         ELSE <<>>
           IN  /\ messages_to_use' =
                      MergeWithCache(cached, new_messages, message_limit)
               /\ faults' = Fault(read_ok)
    /\ pc' = IF new_messages # <<>> THEN "cache" ELSE "install"
    /\ UNCHANGED <<config_vars, sent_to, parsed, cache, app_vars, results, asked, new_messages,
                   full_results, cache_ok, sync_idx, cache_before, in_flight,
                   rounds, upserted, last_op>>

\* A round that a storage error ends on the spot, as a `?` would.
AbortOnError(ok, next) == IF ok THEN next ELSE "aborted"

\* `if let Err(e) = ... { eprintln!(..) }`: where the round goes after a
\* cache call that returned ok or an error; the error is only logged.
StepAfter(ok, next) == next

\* `if let Err(e) = self.cache.cache_messages(&new_messages).await { eprintln }`
CacheWrite ==
    /\ pc = "cache"
    /\ \E failAt \in FailPoints(new_messages) :
           LET r == cache_messages(cache, new_messages, failAt)
           IN  /\ r.ok \in StorageOutcomes
               /\ cache' = r.db
               /\ cache_ok' = r.ok
               /\ faults' = Fault(r.ok)
               /\ upserted' = RecordUpserts(upserted,
                                  CompletedUpserts(new_messages, failAt))
               /\ pc' = StepAfter(r.ok, "sync")
    /\ sync_idx' = 1
    /\ UNCHANGED <<config_vars, sent_to, parsed, app_vars, results, asked, new_messages, messages_to_use,
                   full_results, cache_before, in_flight, rounds, last_op>>

\* `new_messages.iter().filter(|m| m.source == provider.source())`
provider_messages(new, p) ==
    SelectSeqBy(new, {m \in Range(new) : m.source = p.source})

\* The id of max_by_key(|m| m.id) of a non-empty list.
max_id(list) ==
    CHOOSE i \in {m.id : m \in Range(list)} : \A m \in Range(list) : m.id <= i

\* Whether the round goes on to the sync-state loop once cache_messages has
\* returned ok: an error is only logged.
SyncAfterCache(ok) == TRUE

\* One turn of `for provider in &self.integration_manager.providers`.
SyncStep ==
    /\ pc = "sync"
    /\ sync_idx \in 1..Len(providers)
    /\ LET mine == provider_messages(new_messages, providers[sync_idx])
           next == IF sync_idx = Len(providers) THEN "install" ELSE "sync"
       IN  IF mine # <<>> /\ SyncAfterCache(cache_ok)
           THEN \E write_ok \in StorageOutcomes :
                    /\ cache' = IF write_ok
                                THEN update_sync_state(cache,
                                         providers[sync_idx].provider_key,
                                         max_id(mine))
                                ELSE cache
                    /\ faults' = Fault(write_ok)
                    /\ pc' = StepAfter(write_ok, next)
           ELSE /\ pc' = next
                /\ UNCHANGED <<cache, faults>>
    /\ sync_idx' = sync_idx + 1
    /\ UNCHANGED <<config_vars, sent_to, parsed, app_vars, results, asked, new_messages, messages_to_use,
                   full_results, cache_ok, cache_before, in_flight, rounds,
                   upserted, last_op>>

\* The selection after `self.messages = messages_to_use`.
SelectionAfterRefresh(sel, msgs) ==
    IF msgs = <<>> THEN None
    ELSE IF sel = None THEN 0
    ELSE IF sel >= Len(msgs) THEN Len(msgs) - 1
    ELSE sel

\* A round that returns with the flag still set.
RefreshingLeftSet == TRUE

\* `self.is_refreshing = false;` at the end of refresh_messages.
RefreshingAfterRound == FALSE

\* A round that leaves the refresh clock running.
ClockKeptRunning(e) == e

\* `self.last_refresh = Instant::now();` at the end of refresh_messages:
\* the time elapsed since last_refresh.
ClockAfterRound(e) == 0

\* The tail of refresh_messages.
Finish ==
    /\ pc = "install"
    /\ messages' = messages_to_use
    /\ selected_message' = SelectionAfterRefresh(selected_message, messages_to_use)
    /\ elapsed' = ClockAfterRound(elapsed)
    /\ is_refreshing' = RefreshingAfterRound
    /\ pc' = "idle"
    /\ results' = NoResults
    /\ asked' = <<>>
    /\ new_messages' = <<>>
    /\ messages_to_use' = <<>>
    /\ full_results' = NoResults
    /\ cache_ok' = TRUE
    /\ sync_idx' = 0
    /\ cache_before' = EmptyDb
    /\ in_flight' = in_flight - 1
    /\ last_op' = "refresh_done"
    /\ UNCHANGED <<config_vars, sent_to, parsed, cache, input_mode, input_text, rounds, faults,
                   upserted>>

\* A timer that is always due.
always_due == ~is_refreshing

\* should_refresh()
should_refresh == ~is_refreshing /\ elapsed >= RefreshSecs

\* Time passes between two turns of the event loop.
Tick ==
    /\ pc = "idle"
    /\ elapsed < RefreshSecs
    /\ elapsed' = Min(elapsed + TickSecs, RefreshSecs)
    /\ UNCHANGED <<config_vars, sent_to, parsed, cache, messages, selected_message, input_mode,
                   input_text, is_refreshing, round_vars, faults, upserted,
                   last_op>>

\* main: `if app.should_refresh() && !app.input_mode { app.refresh_messages() }`
\* at the top of the event loop.
AutoRefresh ==
    /\ pc = "idle"
    /\ should_refresh
    /\ ~input_mode
    /\ RefreshCall("refresh_auto")
    /\ UNCHANGED <<config_vars, sent_to, parsed, input_mode, input_text>>

\* main: KeyCode::Char('r') outside input mode.
ManualRefresh ==
    /\ pc = "idle"
    /\ ~input_mode
    /\ RefreshCall("refresh_manual")
    /\ UNCHANGED <<config_vars, sent_to, parsed, input_mode, input_text>>

\* A refresh_messages call made while a round is suspended at one of its
\* awaits: the call the guard of refresh_messages is written for.
RefreshWhileRefreshing ==
    /\ pc # "idle"
    /\ RefreshCall("refresh_reentrant")
    /\ UNCHANGED <<config_vars, sent_to, parsed, input_mode, input_text>>

\* main: KeyCode::Enter outside input mode.
StartTyping ==
    /\ pc = "idle"
    /\ ~input_mode
    /\ input_mode' = TRUE
    /\ UNCHANGED <<config_vars, sent_to, parsed, cache, messages, selected_message, input_text,
                   elapsed, is_refreshing, round_vars, faults, upserted, last_op>>

\* main: KeyCode::Char(c) in input mode; the text is at most one character.
TypeChar ==
    /\ pc = "idle"
    /\ input_mode
    /\ input_text = ""
    /\ input_text' = "x"
    /\ UNCHANGED <<config_vars, sent_to, parsed, cache, messages, selected_message, input_mode,
                   elapsed, is_refreshing, round_vars, faults, upserted, last_op>>

\* main: KeyCode::Esc in input mode.
CancelTyping ==
    /\ pc = "idle"
    /\ input_mode
    /\ input_mode' = FALSE
    /\ input_text' = ""
    /\ UNCHANGED <<config_vars, sent_to, parsed, cache, messages, selected_message, elapsed,
                   is_refreshing, round_vars, faults, upserted, last_op>>

\* get_selected_message(): the selected message, when there is one.
HasSelected == selected_message # None /\ selected_message < Len(messages)
Selected == messages[selected_message + 1]

\* The closure of `providers.iter().find(..)` in send_message.
MatchesTarget(p, source, channel) ==
    /\ p.source = source
    /\ \/ channel = NoChannel
       \/ p.channel_id = channel
       \/ (source = "MessageSource::Telegram" /\ p.channel_id = NoChannel)

\* The index of the provider send_message picks, 0 when there is none.
target_provider(provs, has_target, source, channel) ==
    IF has_target
    THEN IF \E k \in 1..Len(provs) : MatchesTarget(provs[k], source, channel)
         THEN CHOOSE k \in 1..Len(provs) :
                  /\ MatchesTarget(provs[k], source, channel)
                  /\ \A h \in 1..(k - 1) : ~MatchesTarget(provs[h], source, channel)
         ELSE 0
    ELSE IF provs = <<>> THEN 0 ELSE 1

\* Utc::now(): later than every timestamp a provider reports.
NowStamp == MaxTime + 1

\* The local notice send_message pushes when the send failed or no provider
\* matched.
Notice(text, source, len) ==
    Message(len + 1, source, text, NowStamp, "System", <<>>, NoChannel)

\* The displayed list holds at most MaxLimit + MaxNotices entries.
MaxNotices == 1

\* A local entry that is written to the cache as it is created.
NoticePersisted(db, entry) == cache_messages(db, <<entry>>, 0).db

\* The database after send_message or send_message_non_blocking has put a
\* local entry into self.messages: no call of the cache is made.
CacheAfterNotice(db, entry) == db

\* App::send_message with a non-empty input_text.
SendMessage ==
    /\ pc = "idle"
    /\ input_text # ""
    /\ input_text' = ""
    /\ input_mode' = FALSE
    /\ LET source == IF HasSelected THEN Selected.source ELSE Discord
           channel == IF HasSelected THEN Selected.channel_id ELSE NoChannel
           target == target_provider(providers, HasSelected, source, channel)
       IN  IF target # 0
           THEN /\ sent_to' = target
                /\ \E send_ok \in BOOLEAN :
                    IF send_ok
                    THEN RefreshCall("refresh_after_send")
                    ELSE LET error_message ==
                                 Notice("Failed to send: x", source, Len(messages))
                         IN  /\ Len(messages) < MaxLimit + MaxNotices
                             /\ messages' = Append(messages, error_message)
                             /\ selected_message' = Len(messages)
                             /\ cache' = CacheAfterNotice(cache, error_message)
                             /\ last_op' = "send_failed"
                             /\ UNCHANGED <<elapsed, is_refreshing, round_vars,
                                            faults, upserted>>
           ELSE LET error_message ==
                        Notice("No provider configured: x", source, Len(messages))
                IN  /\ sent_to' = 0
                    /\ Len(messages) < MaxLimit + MaxNotices
                    /\ messages' = Append(messages, error_message)
                    /\ selected_message' = Len(messages)
                    /\ cache' = CacheAfterNotice(cache, error_message)
                    /\ last_op' = "send_no_provider"
                    /\ UNCHANGED <<elapsed, is_refreshing, round_vars, faults,
                                   upserted>>
    /\ UNCHANGED <<config_vars, parsed>>

\* The optimistic entry send_message_non_blocking puts at the head of the
\* displayed list.
SendingEntry(text, len) ==
    Message(len + 1, Discord, text, NowStamp, "You", <<>>, NoChannel)

\* App::send_message_non_blocking with a non-empty input_text: what main
\* calls for Shift+Enter and Tab in input mode.  No provider is called.
SendMessageNonBlocking ==
    /\ pc = "idle"
    /\ input_text # ""
    /\ input_text' = ""
    /\ input_mode' = FALSE
    /\ Len(messages) < MaxLimit + MaxNotices
    /\ LET sending_message == SendingEntry("Sending: x", Len(messages))
       IN  /\ messages' = <<sending_message>> \o messages
           /\ cache' = CacheAfterNotice(cache, sending_message)
    /\ selected_message' = 0
    /\ sent_to' = 0
    /\ last_op' = "send_non_blocking"
    /\ UNCHANGED <<config_vars, parsed, elapsed, is_refreshing, round_vars, faults,
                   upserted>>

\* select_next(): KeyCode::Down outside input mode.
SelectNext ==
    /\ pc = "idle"
    /\ ~input_mode
    /\ selected_message # None
    /\ selected_message < Len(messages) - 1
    /\ selected_message' = selected_message + 1
    /\ UNCHANGED <<config_vars, sent_to, parsed, cache, messages, input_mode, input_text,
                   elapsed, is_refreshing, round_vars, faults, upserted, last_op>>

\* select_previous(): KeyCode::Up outside input mode.
SelectPrevious ==
    /\ pc = "idle"
    /\ ~input_mode
    /\ selected_message # None
    /\ selected_message > 0
    /\ selected_message' = selected_message - 1
    /\ UNCHANGED <<config_vars, sent_to, parsed, cache, messages, input_mode, input_text,
                   elapsed, is_refreshing, round_vars, faults, upserted, last_op>>

(***************************************************************************)
(* The cache alone: calls of cache_messages on a fresh database.           *)
(***************************************************************************)
\* The display text and attachments a cached message may carry.
CacheVersions ==
    {[content |-> "v1", author |-> "ann", timestamp |-> 1, attachments |-> <<>>],
     [content |-> "v2", author |-> "bob", timestamp |-> MaxTime,
      attachments |-> <<Picture, Notes>>]}

\* The messages the calls of the cache specification persist.
CacheMessages ==
    {Message(i, src, v.content, v.timestamp, v.author, v.attachments, NoChannel) :
        i \in 1..MaxId, src \in {Discord, Jira}, v \in CacheVersions}

\* A call persists at most MaxBatch messages.
MaxBatch == 2

\* The lists a call of cache_messages is given.
CacheInputs == ListsUpTo(CacheMessages, MaxBatch)

InitCache ==
    /\ Init
    /\ providers = <<DiscordC1, JiraHost>>
    /\ message_limit = MaxLimit
    /\ messages = <<>>

\* A call cache_messages(L).
CacheMessagesCall ==
    /\ \E L \in CacheInputs :
       \E failAt \in FailPoints(L) :
           LET r == cache_messages(cache, L, failAt)
           IN  /\ r.ok \in StorageOutcomes
               /\ cache' = r.db
               /\ faults' = Fault(r.ok)
               /\ upserted' = RecordUpserts(upserted, CompletedUpserts(L, failAt))
               /\ last_op' = IF r.ok THEN "cache_messages_ok"
                                      ELSE "cache_messages_err"
    /\ UNCHANGED <<config_vars, sent_to, parsed, app_vars, round_vars>>

NextCache == CacheMessagesCall

\* The arguments of the calls of get_messages_since.
SinceValues == 0..MaxTime
LimitValues == {None} \cup (0..MaxLimit)

\* A call get_messages_since(since, limit): one SELECT, which may fail.
GetMessagesSinceCall ==
    /\ \E since \in SinceValues, limit \in LimitValues, ok \in StorageOutcomes :
           /\ faults' = Fault(ok)
           /\ last_op' = IF ok THEN "get_messages_since_ok"
                                ELSE "get_messages_since_err"
    /\ UNCHANGED <<config_vars, sent_to, parsed, cache, app_vars, round_vars, upserted>>

NextRead ==
    \/ CacheMessagesCall
    \/ GetMessagesSinceCall

\* The cache with its reads by timestamp: calls of cache_messages and of
\* get_messages_since on a fresh database.
SpecRead == InitCache /\ [][NextRead]_vars

\* The keys and the values of the calls of the watermark specification.
SyncKeyValues == {DiscordC1.provider_key, DiscordC2.provider_key,
                  JiraHost.provider_key}
IdValues == 0..(2 ^ IdBits - 1)

\* A call update_sync_state(key, last).
UpdateSyncStateCall ==
    /\ \E key \in SyncKeyValues, last \in IdValues, ok \in StorageOutcomes :
           /\ cache' = IF ok THEN update_sync_state(cache, key, last) ELSE cache
           /\ faults' = Fault(ok)
           /\ last_op' = IF ok THEN "update_sync_state_ok"
                                ELSE "update_sync_state_err"
    /\ UNCHANGED <<config_vars, sent_to, parsed, app_vars, round_vars, upserted>>

NextSync == UpdateSyncStateCall

\* The watermark store alone: calls of update_sync_state on a fresh
\* database.
SpecSync == InitCache /\ [][NextSync]_vars

SpecCache == InitCache /\ [][NextCache]_vars

\* The synchronisation rounds alone, each started by a manual refresh.
Next ==
    \/ ManualRefresh
    \/ Fallback
    \/ Merge
    \/ CacheWrite
    \/ SyncStep
    \/ Finish

Spec == Init /\ [][Next]_vars

\* The application: the timer, the keys, send_message and the rounds.
NextApp ==
    \/ Tick
    \/ AutoRefresh
    \/ ManualRefresh
    \/ RefreshWhileRefreshing
    \/ StartTyping
    \/ TypeChar
    \/ CancelTyping
    \/ SendMessage
    \/ Fallback
    \/ Merge
    \/ CacheWrite
    \/ SyncStep
    \/ Finish

SpecApp == InitApp /\ [][NextApp]_vars

\* The steps of a round of refresh_messages after its first await.
RoundStep ==
    \/ Fallback
    \/ Merge
    \/ CacheWrite
    \/ SyncStep
    \/ Finish

\* The application when every awaited call of a round returns.
SpecAppFair == SpecApp /\ WF_vars(RoundStep)

\* The provider lists of the sending specification: none, Jira alone, two
\* Discord channels.
SendConfigs == {<<>>, <<JiraHost>>, <<DiscordC1, DiscordC2>>}

\* App::new on a fresh database, with one of the provider lists configs and
\* a MESSAGE_LIMIT of limits.
NewApp(configs, limits) ==
    /\ providers \in configs
    /\ message_limit \in limits
    /\ cache = EmptyDb
    /\ \E res \in FanOuts(providers), order \in Orders(Len(providers)) :
           messages = fetch_all_messages(join_all(res, order), message_limit)
    /\ selected_message = InitialSelection(messages)
    /\ input_mode = FALSE
    /\ input_text = ""
    /\ elapsed = 0
    /\ is_refreshing = FALSE
    /\ pc = "idle"
    /\ results = NoResults
    /\ asked = <<>>
    /\ new_messages = <<>>
    /\ messages_to_use = <<>>
    /\ full_results = NoResults
    /\ cache_ok = TRUE
    /\ sync_idx = 0
    /\ cache_before = EmptyDb
    /\ in_flight = 0
    /\ rounds = 0
    /\ faults = 0
    /\ upserted = {}
    /\ sent_to = 0
    /\ parsed = NotParsed
    /\ last_op = "new"

\* The configuration of the sending specification: one of the SendConfigs
\* and MESSAGE_LIMIT=1.
InitSend == NewApp(SendConfigs, {Min(1, MaxLimit)})

\* Sending: the selection keys, the input keys, both send operations and
\* the round a successful send starts.
NextSend ==
    \/ SelectNext
    \/ SelectPrevious
    \/ StartTyping
    \/ TypeChar
    \/ CancelTyping
    \/ SendMessage
    \/ SendMessageNonBlocking
    \/ Fallback
    \/ Merge
    \/ CacheWrite
    \/ SyncStep
    \/ Finish

SpecSend == InitSend /\ [][NextSend]_vars

\* A start-up that never takes the cached list.
StartupIgnoresCache(cached) == FALSE

\* `if !cached_messages.is_empty()` of App::new: whether the cached list is
\* displayed.
StartupUsesCache(cached) == cached # <<>>

\* The program is started again on the database an earlier run left:
\* App::new with get_cached_messages(Some(message_limit)).unwrap_or_default()
\* and, when that list is empty, fetch_all_messages(None, Some(message_limit)),
\* whose provider results full_results keeps.
Restart ==
    /\ pc = "idle"
    /\ \E read_ok \in StorageOutcomes, tie \in TieOrders :
           LET cached_messages ==
                   IF read_ok THEN get_cached_messages(cache, message_limit, tie)
                              ELSE <<>>
           IN  /\ faults' = Fault(read_ok)
               /\ IF StartupUsesCache(cached_messages)
                  THEN /\ messages' = cached_messages
                       /\ full_results' = NoResults
                       /\ last_op' = "new_cached"
                  ELSE /\ \E res \in FanOuts(providers),
                             order \in Orders(Len(providers)) :
                              /\ full_results' = join_all(res, order)
                              /\ messages' = fetch_all_messages(full_results',
                                                                message_limit)
                       /\ last_op' = "new_fetched"
    /\ selected_message' = InitialSelection(messages')
    /\ input_mode' = FALSE
    /\ input_text' = ""
    /\ elapsed' = 0
    /\ is_refreshing' = FALSE
    /\ results' = NoResults
    /\ asked' = <<>>
    /\ new_messages' = <<>>
    /\ messages_to_use' = <<>>
    /\ cache_ok' = TRUE
    /\ sync_idx' = 0
    /\ cache_before' = EmptyDb
    /\ sent_to' = 0
    /\ UNCHANGED <<config_vars, parsed, cache, pc, in_flight, rounds, upserted>>

\* The configuration of the start-up specification: one Discord channel.
InitRestart == NewApp({<<DiscordC1>>}, 0..MaxLimit)

NextRestart ==
    \/ Restart
    \/ ManualRefresh
    \/ Fallback
    \/ Merge
    \/ CacheWrite
    \/ SyncStep
    \/ Finish

\* Runs of the program one after the other on the same database: the
\* rounds, and the start of the program on what they left.
SpecRestart == InitRestart /\ [][NextRestart]_vars

\* App::load_cached_messages: a failed read returns with `?`; an empty
\* cached list leaves the displayed list; otherwise the cached list is
\* displayed and a selection of None becomes Some(0).
LoadCachedMessages ==
    /\ pc = "idle"
    /\ \E read_ok \in StorageOutcomes, tie \in TieOrders :
           LET cached_messages ==
                   IF read_ok THEN get_cached_messages(cache, message_limit, tie)
                              ELSE <<>>
           IN  /\ faults' = Fault(read_ok)
               /\ last_op' = IF read_ok THEN "load_cached" ELSE "load_cached_err"
               /\ IF cached_messages # <<>>
                  THEN /\ messages' = cached_messages
                       /\ selected_message' =
                              IF selected_message = None THEN 0 ELSE selected_message
                  ELSE UNCHANGED <<messages, selected_message>>
    /\ UNCHANGED <<config_vars, sent_to, parsed, cache, input_mode, input_text, elapsed,
                   is_refreshing, round_vars, upserted>>

\* Every operation of App on the displayed list and the selection.
NextOps ==
    \/ LoadCachedMessages
    \/ SelectNext
    \/ SelectPrevious
    \/ StartTyping
    \/ TypeChar
    \/ CancelTyping
    \/ SendMessage
    \/ SendMessageNonBlocking
    \/ Fallback
    \/ Merge
    \/ CacheWrite
    \/ SyncStep
    \/ Finish

SpecOps == InitSend /\ [][NextOps]_vars

\* DiscordProvider::parse_message on one element of msg["attachments"].
ParseDiscordAttachment ==
    /\ \E content_type \in ContentTypes, filename \in FileNames :
           parsed' = [by |-> "discord", content_type |-> content_type,
                      filename |-> filename,
                      file_type |-> discord_file_type(content_type, filename)]
    /\ last_op' = "parse_message"
    /\ UNCHANGED <<config_vars, sent_to, cache, app_vars, round_vars, faults,
                   upserted>>

\* TelegramProvider::convert_message on a Media::Document: the name of the
\* document, or document_{id} when it has none.
ConvertTelegramDocument ==
    /\ \E filename \in FileNames \cup {<<"document_1">>} :
           parsed' = [by |-> "telegram", content_type |-> NoContentType,
                      filename |-> filename,
                      file_type |-> telegram_file_type(filename)]
    /\ last_op' = "convert_message"
    /\ UNCHANGED <<config_vars, sent_to, cache, app_vars, round_vars, faults,
                   upserted>>

\* TelegramProvider::convert_message on a Media::Photo.
ConvertTelegramPhoto ==
    /\ parsed' = [by |-> "telegram", content_type |-> NoContentType,
                  filename |-> <<"photo_1", "jpg">>,
                  file_type |-> "AttachmentType::Image"]
    /\ last_op' = "convert_message"
    /\ UNCHANGED <<config_vars, sent_to, cache, app_vars, round_vars, faults,
                   upserted>>

NextParse ==
    \/ ParseDiscordAttachment
    \/ ConvertTelegramDocument
    \/ ConvertTelegramPhoto

\* The providers' parsing of attachments.
SpecParse == InitCache /\ [][NextParse]_vars

\* The configuration with Jira alone.
InitJira == NewApp({<<JiraHost>>}, 0..MaxLimit)

\* The synchronisation rounds of the Jira configuration.
SpecJira == InitJira /\ [][Next]_vars

(***************************************************************************)
(* Properties.                                                             *)
(***************************************************************************)
\* The watermark stored for provider p of the configuration.
Watermark(db, p) == get_last_message_id(db, providers[p].provider_key)

\* Whether the cache holds a row for message m under m's id and source.
HasRow(db, m) ==
    \E r \in db.messages : r.id = m.id /\ r.source = SourceText(m.source)

\* C1: Composite identity.  After calls of cache_messages that all
\* succeeded, any two persisted messages with the same numeric id and
\* different sources are both returned by get_cached_messages(None), each
\* with its own content, author and attachments.
C1_CompositeIdentity ==
    faults = 0 =>
        \A m1 \in upserted : \A m2 \in upserted :
            (m1.id = m2.id /\ m1.source # m2.source) =>
                \A tie \in TieOrders :
                    {m1, m2} \subseteq Range(get_cached_messages(cache, None, tie))

\* C2: Watermark monotonicity.  No step of any sequence of rounds lowers
\* the last_message_id stored for a provider_key.
C2_WatermarkMonotone ==
    [][\A p \in 1..Len(providers) : Watermark(cache', p) >= Watermark(cache, p)]_vars

\* C3: When cache_messages has failed in a round, the watermarks are those
\* of the start of the round.
C3_FailedWriteKeepsWatermarks ==
    (pc \in {"sync", "install"} /\ ~cache_ok) =>
        cache.sync_state = cache_before.sync_state

\* C4: Single-flight.  At most one round is in progress, and a round is in
\* progress exactly while is_refreshing is set, so that no trigger starts a
\* round from a state where is_refreshing holds.
C4_SingleFlight ==
    /\ in_flight <= 1
    /\ is_refreshing <=> in_flight = 1
    /\ is_refreshing <=> pc # "idle"

\* A round is under way, past its cache write, and a further call of
\* refresh_messages has been turned away.
C4_Witness ==
    /\ in_flight = 1
    /\ pc = "sync"
    /\ last_op = "refresh_suppressed"

\* C5: A call of refresh_messages made while is_refreshing holds is a
\* no-op: no fan-out is issued and the displayed messages, the selection,
\* the refresh clock, is_refreshing, the cache and the watermarks are
\* unchanged.
C5_SuppressedCallIsNoOp ==
    [][(is_refreshing /\ RefreshWhileRefreshing) =>
           UNCHANGED <<cache, messages, selected_message, elapsed, is_refreshing,
                       results, new_messages, full_results, in_flight, rounds>>]_vars

\* The timer was due, the round it started is still in progress, and a
\* call made meanwhile has returned at once.
C5_Witness ==
    /\ is_refreshing
    /\ elapsed >= RefreshSecs
    /\ last_op = "refresh_suppressed"

\* C6: Ordering.  The displayed list, which is the list of fetch_all_messages
\* at start-up and the list a round installs afterwards, and the list a
\* round is about to install on either path, are sorted by timestamp
\* non-increasing.
C6_NewestFirst ==
    /\ IsNewestFirst(messages)
    /\ pc = "install" => IsNewestFirst(messages_to_use)

\* A merge of cached and new messages of different timestamps is about to
\* be installed.
C6_Witness ==
    /\ pc = "install"
    /\ full_results = NoResults
    /\ cache_before.messages # {}
    /\ Len(messages_to_use) >= 2
    /\ messages_to_use[1].timestamp > messages_to_use[2].timestamp

\* C7: The list of fetch_all_messages(None, Some(limit)) holds exactly
\* min(limit, total) messages, all of them of the union of the successful
\* providers' messages, and none of them older than a message of the union
\* left out.
C7_FetchAllTopLimit ==
    (pc = "install" /\ full_results # NoResults) =>
        LET pool == CollectOk(full_results)
            out == messages_to_use
        IN  /\ Len(out) = Min(message_limit, Len(pool))
            /\ Cardinality(Range(out)) = Len(out)
            /\ Range(out) \subseteq Range(pool)
            /\ \A o \in Range(out) : \A m \in Range(pool) \ Range(out) :
                   o.timestamp >= m.timestamp

\* A full fetch whose pool held more messages than the limit.
C7_Witness ==
    /\ pc = "install"
    /\ full_results # NoResults
    /\ Len(CollectOk(full_results)) > message_limit

\* C8: Fallback.  A round whose incremental fan-out yielded no message
\* ends by installing the list of a full fetch_all_messages(None, limit)
\* and completes.
C8_Fallback ==
    [][(pc = "install" /\ pc' = "idle" /\ CollectOk(results) = <<>>) =>
           /\ full_results \in FanOuts(providers)
           /\ messages' = fetch_all_messages(full_results, message_limit)
           /\ ~is_refreshing'
           /\ last_op' = "refresh_done"]_vars

\* An incremental fan-out in which a provider failed and none returned a
\* message, followed by a full fetch that returned some.
C8_Witness ==
    /\ pc = "install"
    /\ CollectOk(results) = <<>>
    /\ \E p \in 1..Len(results) : ~results[p].ok
    /\ full_results # NoResults
    /\ messages_to_use # <<>>

\* C9: At the end of a round without storage errors, the watermark of each
\* provider that returned new messages is the greatest id among the
\* messages that provider returned, and its newest message heads the
\* result when it is newer than every other message of the pool and of
\* the cache.
C9_WatermarkIsOwnMaximum ==
    (pc = "install" /\ faults = 0) =>
        \A p \in 1..Len(results) :
            (results[p].ok /\ results[p].msgs # <<>>) =>
                /\ Watermark(cache, p) = max_id(results[p].msgs)
                /\ \A m \in Range(results[p].msgs) :
                       ( /\ \A o \in Range(CollectOk(results)) \ {m} :
                                o.timestamp < m.timestamp
                         /\ \A r \in cache_before.messages :
                                r.timestamp < m.timestamp )
                       => messages_to_use[1] = m

\* C10: Persist-all.  At the end of a round with a non-empty delta pool
\* and no storage error, the cache holds a row for every message a
\* provider returned.
C10_PersistAll ==
    (pc = "install" /\ faults = 0 /\ CollectOk(results) # <<>>) =>
        \A m \in Range(CollectOk(results)) : HasRow(cache, m)

\* C11: No duplicates in the merged view.  The list a round is about to
\* install on the merge path never holds two entries with the same
\* (source, id).
C11_NoDuplicateIdentity ==
    (pc = "install" /\ full_results = NoResults) =>
        \A i \in 1..Len(messages_to_use) : \A j \in 1..Len(messages_to_use) :
            i # j => Identity(messages_to_use[i]) # Identity(messages_to_use[j])

\* C12: Last-write-wins upsert.  After successful calls of cache_messages
\* the cache holds, for each identity persisted, exactly one row, and the
\* row and its attachments are those of the message last persisted under
\* that identity.
C12_LastWriteWins ==
    faults = 0 =>
        \A m \in upserted :
            /\ {r \in cache.messages :
                   r.id = m.id /\ r.source = SourceText(m.source)} = {MessageRow(m)}
            /\ SelectAttachments(cache, m.id) = m.attachments

\* C13: Idempotent upsert.  In every cache state, for every list L, a
\* second successful cache_messages(L) right after a first leaves the
\* messages and attachments relations as the first left them.
C13_IdempotentUpsert ==
    \A L \in CacheInputs :
        LET once == cache_messages(cache, L, 0).db
            twice == cache_messages(once, L, 0).db
        IN  /\ twice.messages = once.messages
            /\ twice.attachments = once.attachments

\* A cache, holding a row for every id, that a successful call with a full
\* batch whose first message carries attachments has just left as it would
\* leave it again.
C13_Witness ==
    /\ last_op = "cache_messages_ok"
    /\ Cardinality(cache.messages) = MaxId
    /\ \E L \in CacheInputs :
           /\ Len(L) = MaxBatch
           /\ L[1].attachments # <<>>
           /\ cache_messages(cache, L, 0).db = cache

\* C18: Attachment atomicity.  In every cache state, also after a storage
\* error inside cache_messages, the attachments stored for a row are the
\* whole attachment list of the message whose row it is.
C18_AttachmentAtomicity ==
    \A r \in cache.messages :
        \E m \in CacheMessages :
            /\ MessageRow(m) = r
            /\ SelectAttachments(cache, r.id) = m.attachments

\* C19: Cache round-trip.  After successful calls, a persisted message
\* whose row was not overwritten is returned by get_cached_messages(None)
\* with all its fields and its attachments in order, and
\* get_cached_messages(Some(n)) returns at most n messages, newest first.
C19_RoundTrip ==
    faults = 0 =>
        \A tie \in TieOrders :
            /\ \A m \in upserted :
                   HasRow(cache, m) =>
                       m \in Range(get_cached_messages(cache, None, tie))
            /\ \A n \in 0..MaxLimit :
                   LET out == get_cached_messages(cache, n, tie)
                   IN  Len(out) <= n /\ IsNewestFirst(out)

\* Every id has a row, and one of the rows is that of a persisted message
\* with two attachments.
C19_Witness ==
    /\ faults = 0
    /\ last_op = "cache_messages_ok"
    /\ Cardinality(cache.messages) = MaxId
    /\ \E m \in upserted : HasRow(cache, m) /\ Len(m.attachments) = 2

\* The messages of the providers whose call succeeded in the fan-out res.
SuccessMessages(res) ==
    UNION {Range(res[p].msgs) : p \in {q \in 1..Len(res) : res[q].ok}}

\* Whether out is what a fan-out with the results res owes under the limit:
\* min(limit, successes) messages, all of them of providers that succeeded,
\* and every message of every provider that succeeded when they fit.
IsolatesFailures(res, out) ==
    /\ Len(out) = Min(message_limit, Cardinality(SuccessMessages(res)))
    /\ Range(out) \subseteq SuccessMessages(res)
    /\ Cardinality(SuccessMessages(res)) <= message_limit =>
           SuccessMessages(res) \subseteq Range(out)

\* C14: Provider failure isolation.  Whatever subset of providers fails in
\* a fan-out, fetch_incremental_messages and fetch_all_messages return the
\* messages of the providers that succeeded, up to the limit, and nothing
\* from those that failed.
C14_FailureIsolation ==
    /\ results # NoResults => IsolatesFailures(results, new_messages)
    /\ (pc = "install" /\ full_results # NoResults) =>
           IsolatesFailures(full_results, messages_to_use)

\* An incremental fan-out in which one provider failed and another
\* returned a message.
C14_Witness ==
    /\ pc = "fetched"
    /\ \E p \in 1..Len(results) : ~results[p].ok
    /\ new_messages # <<>>

\* C15: Every round that sets is_refreshing clears it again, whatever the
\* providers and the cache return, when every awaited call returns.
C15_RoundEnds == is_refreshing ~> ~is_refreshing

\* The first round met a storage error and has returned.
C15_Witness ==
    /\ rounds = 1
    /\ faults = 1
    /\ last_op = "refresh_done"
    /\ ~is_refreshing

\* C16: The timer starts a round only when 30 seconds have elapsed since
\* the last refresh, input_mode is false and is_refreshing is false; no
\* round is in progress while input_mode holds.
C16_AutoRefreshGuard ==
    /\ [](is_refreshing => ~input_mode)
    /\ [][(last_op' = "refresh_auto" /\ rounds' = rounds + 1) =>
              (elapsed >= RefreshSecs /\ ~input_mode /\ ~is_refreshing)]_vars

\* The timer has started the second round.
C16_Witness ==
    /\ last_op = "refresh_auto"
    /\ pc = "fetched"
    /\ rounds = 2

\* C17: Startup seeding.  After a start on an empty cache, the messages
\* the full fetch returned have rows in the cache.
C17_StartupSeeding ==
    (pc = "idle" /\ last_op = "new") =>
        \A m \in Range(messages) : HasRow(cache, m)

\* C20: A storage error in cache_messages or update_sync_state does not
\* end the round: the round goes on with the same merged list, and its
\* last step installs that list, clears is_refreshing and returns.
C20_StorageErrorIsNotFatal ==
    [][/\ (faults' > faults /\ pc \in {"cache", "sync"}) =>
              (pc' \in {"sync", "install"} /\ messages_to_use' = messages_to_use
               /\ is_refreshing')
       /\ (pc = "install" /\ pc' = "idle") =>
              (messages' = messages_to_use /\ ~is_refreshing'
               /\ last_op' = "refresh_done")]_vars

\* cache_messages failed in a round that is about to install a merged list.
C20_Witness ==
    /\ pc = "install"
    /\ ~cache_ok
    /\ messages_to_use # <<>>

\* The target (source, channel) of a send: those of the selected message.
TargetSource == IF HasSelected THEN Selected.source ELSE Discord
TargetChannel == IF HasSelected THEN Selected.channel_id ELSE NoChannel

\* Whether the find of send_message comes back empty in this state.
NoProviderMatches ==
    target_provider(providers, HasSelected, TargetSource, TargetChannel) = 0

\* Whether the entry the selection stands on is a failure notice.
NoticeSelected(msgs, sel) ==
    /\ sel # None
    /\ sel < Len(msgs)
    /\ msgs[sel + 1].author = "System"

RoutableTo(p, source, channel) ==
    /\ p.source = source
    /\ (p.channel_id = channel \/ p.channel_id = NoChannel)

\* C22: Send routing.  The provider whose send_message a send_message
\* step calls for a selected message has the message's source and either
\* the message's channel or no channel; when no such provider is
\* registered, no provider is called and the failure notice is pushed.
C22_SendRouting ==
    [][(SendMessage /\ HasSelected) =>
           /\ sent_to' # 0 =>
                  RoutableTo(providers[sent_to'], TargetSource, TargetChannel)
           /\ (\A k \in 1..Len(providers) :
                   ~RoutableTo(providers[k], TargetSource, TargetChannel)) =>
                  /\ sent_to' = 0
                  /\ last_op' = "send_no_provider"
                  /\ NoticeSelected(messages', selected_message')]_vars

\* The provider keys that have a sync_state row in db.
SyncKeys(db) == {r.provider_key : r \in db.sync_state}

\* C23: Watermark frame.  A step of a round changes the watermark only of
\* a provider whose own incremental call returned a message in that
\* round, also when another provider has the same source; no sync_state
\* row is deleted.
C23_WatermarkFrame ==
    [][/\ \A p \in 1..Len(providers) :
              Watermark(cache', p) # Watermark(cache, p) =>
                  /\ results # NoResults
                  /\ results[p].ok
                  /\ results[p].msgs # <<>>
       /\ SyncKeys(cache) \subseteq SyncKeys(cache')]_vars

\* C24: Within a round, every step that writes a watermark comes after
\* the round's cache_messages call: it is a step of the sync-state loop,
\* it leaves the messages and attachments alone, and when cache_messages
\* returned Ok every new message of the round already has its row.
C24_WatermarkAfterCacheWrite ==
    [][cache'.sync_state # cache.sync_state =>
           /\ pc = "sync"
           /\ cache'.messages = cache.messages
           /\ cache'.attachments = cache.attachments
           /\ cache_ok =>
                  \A m \in Range(new_messages) :
                      \E r \in cache.messages : r.id = m.id]_vars

\* A round has written new rows and then moved a watermark that an
\* earlier round had set.
C24_Witness ==
    /\ pc = "install"
    /\ cache_ok
    /\ cache_before.sync_state # {}
    /\ cache.sync_state # cache_before.sync_state
    /\ cache.messages # cache_before.messages

\* C25: fetch_all_messages leaves the cache as it is: the Fallback step
\* changes neither the messages, the attachments nor the watermarks, and
\* a round that took the fallback path ends with the database it began
\* with.
C25_FetchAllLeavesCache ==
    /\ []((pc = "install" /\ full_results # NoResults) => cache = cache_before)
    /\ [][(pc = "fetched" /\ pc' = "install" /\ full_results' # NoResults) =>
              cache' = cache]_vars
    /\ [][(pc = "install" /\ pc' = "idle" /\ full_results # NoResults) =>
              cache' = cache_before]_vars

\* A fallback round on a cache that holds rows and a watermark, whose full
\* fetch returned a message.
C25_Witness ==
    /\ pc = "install"
    /\ full_results # NoResults
    /\ messages_to_use # <<>>
    /\ cache.messages # {}
    /\ cache.sync_state # {}

\* The registered provider a message comes from: the one with its source
\* and its channel.
ProviderOf(m) ==
    CHOOSE k \in 1..Len(providers) :
        providers[k].source = m.source /\ providers[k].channel_id = m.channel_id

\* The place of message m in the response of its provider, 0 when the
\* response does not hold it.
PlaceOf(res, m) ==
    LET msgs == res[ProviderOf(m)].msgs
    IN  IF \E i \in 1..Len(msgs) : msgs[i] = m
        THEN CHOOSE i \in 1..Len(msgs) : msgs[i] = m
        ELSE 0

\* The order the responses res fix between two messages: newer first, then
\* registration order of the providers, then the order of the response.
FixedBefore(res, a, b) ==
    \/ a.timestamp > b.timestamp
    \/ /\ a.timestamp = b.timestamp
       /\ \/ ProviderOf(a) < ProviderOf(b)
          \/ /\ ProviderOf(a) = ProviderOf(b)
             /\ PlaceOf(res, a) < PlaceOf(res, b)

\* Whether out is the list the responses res alone determine: one response
\* per provider, and the first min(limit, n) messages of the providers
\* that succeeded in the order FixedBefore.
DeterminedBy(res, out) ==
    /\ Len(res) = Len(providers)
    /\ Range(out) \subseteq SuccessMessages(res)
    /\ Len(out) = Min(message_limit, Cardinality(SuccessMessages(res)))
    /\ \A i \in 1..Len(out) : \A j \in 1..Len(out) :
           i < j => FixedBefore(res, out[i], out[j])
    /\ \A o \in Range(out) : \A m \in SuccessMessages(res) \ Range(out) :
           FixedBefore(res, o, m)

\* C26: Fan-out determinism.  A fan-out holds one response per registered
\* provider, and the list of fetch_incremental_messages and of
\* fetch_all_messages is the one the responses determine, whatever the
\* order in which the calls completed: messages of equal timestamp stand
\* in the registration order of their providers.
C26_FanOutDeterminism ==
    /\ results # NoResults => DeterminedBy(results, new_messages)
    /\ (pc = "install" /\ full_results # NoResults) =>
           DeterminedBy(full_results, messages_to_use)

\* An incremental fan-out in which two providers returned messages of the
\* same timestamp.
C26_Witness ==
    /\ pc = "fetched"
    /\ Len(new_messages) = 2
    /\ new_messages[1].timestamp = new_messages[2].timestamp
    /\ ProviderOf(new_messages[1]) # ProviderOf(new_messages[2])

\* C27: All cache writes happen inside a round.  A cache write is in
\* progress only while is_refreshing holds and one round is in flight;
\* every step that changes the database is a step of that round's cache
\* write or sync-state loop; the fan-out step, with its concurrent
\* watermark reads, leaves the database unchanged.
C27_WritesInsideRound ==
    /\ [](pc \in {"cache", "sync"} => (is_refreshing /\ in_flight = 1))
    /\ [][cache' # cache =>
              /\ is_refreshing
              /\ is_refreshing'
              /\ in_flight = 1
              /\ pc \in {"cache", "sync"}]_vars
    /\ [][rounds' = rounds + 1 => cache' = cache]_vars

\* The second round stands before its cache write, on a database the first
\* round wrote.
C27_Witness ==
    /\ pc = "cache"
    /\ is_refreshing
    /\ rounds = 2
    /\ cache.messages # {}
    /\ cache.sync_state # {}

\* C28: In the incremental fan-out every provider is called with the
\* watermark stored under its own provider_key (None when there is no row),
\* or with None when its watermark read failed; a failed read leaves the
\* round going, with one response per provider.
C28_WatermarkArgument ==
    [][rounds' = rounds + 1 =>
           /\ Len(asked') = Len(providers)
           /\ \A p \in 1..Len(providers) :
                  asked'[p] \in {Watermark(cache, p), None}
           /\ Cardinality({p \in 1..Len(providers) :
                               asked'[p] # Watermark(cache, p)})
                  <= faults' - faults
           /\ pc' = "fetched"
           /\ is_refreshing'
           /\ Len(results') = Len(providers)]_vars

\* A fan-out in which the watermark read of one provider failed and
\* another provider was called with its stored watermark.
C28_Witness ==
    /\ pc = "fetched"
    /\ \E p \in 1..Len(providers) :
           asked[p] = None /\ Watermark(cache, p) # None
    /\ \E q \in 1..Len(providers) :
           asked[q] # None /\ asked[q] = Watermark(cache, q)

\* The sync_state rows of db under key.
SyncRows(db, key) == {r \in db.sync_state : r.provider_key = key}

\* C29: Watermark store.  get_last_message_id returns None for a key that
\* has no row, which is every key never set since no call removes a row;
\* after a successful update_sync_state(k, v), get_last_message_id(k)
\* returns v, every other key returns what it returned before, and there
\* is exactly one row for k.
C29_WatermarkStore ==
    \A k \in SyncKeyValues :
        /\ SyncRows(cache, k) = {} => get_last_message_id(cache, k) = None
        /\ Cardinality(SyncRows(cache, k)) <= 1
        /\ \A v \in IdValues :
               LET after == update_sync_state(cache, k, v)
               IN  /\ get_last_message_id(after, k) = v
                   /\ Cardinality(SyncRows(after, k)) = 1
                   /\ \A other \in SyncKeyValues \ {k} :
                          /\ get_last_message_id(after, other) =
                                 get_last_message_id(cache, other)
                          /\ SyncRows(after, other) = SyncRows(cache, other)
                   /\ after.messages = cache.messages
                   /\ after.attachments = cache.attachments

\* Every key has been set, one of them to a value stored as a negative
\* i64, and the last call succeeded.
C29_Witness ==
    /\ last_op = "update_sync_state_ok"
    /\ \A k \in SyncKeyValues : get_last_message_id(cache, k) # None
    /\ \E r \in cache.sync_state :
           /\ r.last_message_id < 0
           /\ get_last_message_id(cache, r.provider_key) = 2 ^ IdBits - 1

\* C30: An incremental fetch returns only data newer than the watermark:
\* in every fan-out, a provider called with fetch_messages_since_id(Some(w))
\* returns no message whose id is at most w.
C30_OnlyNewerThanWatermark ==
    results # NoResults =>
        \A p \in 1..Len(providers) :
            (results[p].ok /\ asked[p] # None) =>
                \A m \in Range(results[p].msgs) : m.id > asked[p]

\* Whether out holds exactly the min(n, Len(pool)) entries of pool with the
\* newest timestamps: each entry of out is an entry of pool of its own, and
\* no entry of pool left out is newer than an entry of out.
IsTopOf(out, pool, n) ==
    /\ Len(out) = Min(n, Len(pool))
    /\ \E place \in [1..Len(out) -> 1..Len(pool)] :
           /\ \A i \in 1..Len(out) : \A j \in 1..Len(out) :
                  i # j => place[i] # place[j]
           /\ \A i \in 1..Len(out) : out[i] = pool[place[i]]
           /\ \A k \in 1..Len(pool) :
                  (\A i \in 1..Len(out) : place[i] # k) =>
                      \A i \in 1..Len(out) : out[i].timestamp >= pool[k].timestamp

\* The snapshots the merge of a round may have read from the database db:
\* the top-limit rows in either order of equal timestamps, or none when a
\* storage error has occurred and the read may have failed.
Snapshots(db, limit) ==
    (IF faults > 0 THEN {<<>>} ELSE {})
    \cup {get_cached_messages(db, limit, tie) : tie \in TieOrders}

\* C31: Limit bound.  The displayed list, which is the list of
\* fetch_all_messages at start-up and the list a round installs afterwards,
\* and the list a round is about to install, hold at most message_limit
\* entries; on the merge path the list about to be installed holds the
\* message_limit newest entries of the cache's top-limit snapshot extended
\* by the new messages.
C31_LimitBound ==
    /\ Len(messages) <= message_limit
    /\ pc = "install" => Len(messages_to_use) <= message_limit
    /\ (pc = "install" /\ full_results = NoResults) =>
           \E snapshot \in Snapshots(cache_before, message_limit) :
               IsTopOf(messages_to_use, snapshot \o new_messages, message_limit)

\* A merge whose pool held more entries than the limit, in which a new
\* message pushed a cached one out of the list.
C31_Witness ==
    /\ pc = "install"
    /\ full_results = NoResults
    /\ faults = 0
    /\ cache_before.messages # {}
    /\ Cardinality(cache_before.messages) + Len(new_messages) > message_limit
    /\ Len(messages_to_use) = message_limit
    /\ messages_to_use[1] \in Range(new_messages)
    /\ \A r \in cache_before.messages :
           r.timestamp < messages_to_use[1].timestamp

\* The list l without the attachments of its messages.
WithoutAttachments(l) ==
    [k \in 1..Len(l) |-> [l[k] EXCEPT !.attachments = <<>>]]

\* The message a row of the table messages stands for, attachments apart.
RowMessage(r) ==
    Message(r.id, ParseSource(r.source), r.content, r.timestamp, r.author,
            <<>>, r.channel_id)

\* What get_messages_since returns in the current state of the cache, for
\* every argument: messages later than since, newest first, truncated to
\* limit, without attachments; the list of get_cached_messages filtered.
ReadsByTimestamp ==
    \A since \in SinceValues : \A limit \in LimitValues : \A tie \in TieOrders :
           LET out == get_messages_since(cache, since, limit, tie)
               later == {r \in cache.messages : r.timestamp > since}
               all == get_cached_messages(cache, None, tie)
               newer == SelectSeqBy(all, {m \in Range(all) : m.timestamp > since})
           IN  /\ \A m \in Range(out) : m.attachments = <<>>
               /\ Range(out) \subseteq {RowMessage(r) : r \in later}
               /\ IsNewestFirst(out)
               /\ Len(out) = IF limit = None THEN Cardinality(later)
                                             ELSE Min(limit, Cardinality(later))
               /\ \A r \in later :
                      RowMessage(r) \notin Range(out) =>
                          \A m \in Range(out) : m.timestamp >= r.timestamp
               /\ out = WithoutAttachments(IF limit = None THEN newer
                                                           ELSE truncate(newer, limit))

\* C32: get_messages_since(since, limit) returns exactly the cached
\* messages with a timestamp later than since, newest first and truncated
\* to limit, each with an empty attachment list; the call leaves the cache
\* as it is.
C32_GetMessagesSince ==
    /\ []ReadsByTimestamp
    /\ [][GetMessagesSinceCall => cache' = cache]_vars

\* get_messages_since has returned on a cache that holds a message with
\* attachments later than timestamp 1 and a message that is not.
C32_Witness ==
    /\ last_op = "get_messages_since_ok"
    /\ \E r \in cache.messages :
           /\ r.timestamp > 1
           /\ SelectAttachments(cache, r.id) # <<>>
    /\ \E r \in cache.messages : r.timestamp <= 1

\* C33: Cache-first startup.  When the cache read of App::new returns at
\* least one message, the displayed list is that snapshot and no provider
\* is called; when the read returns no message or fails, the displayed
\* list is the list of a full fetch_all_messages(None, limit).
C33_CacheFirstStartup ==
    [][Restart =>
           IF /\ faults' = faults
              /\ get_cached_messages(cache, message_limit, "rowid_desc") # <<>>
           THEN /\ \E tie \in TieOrders :
                       messages' = get_cached_messages(cache, message_limit, tie)
                /\ full_results' = NoResults
                /\ last_op' = "new_cached"
           ELSE /\ full_results' \in FanOuts(providers)
                /\ messages' = fetch_all_messages(full_results', message_limit)
                /\ last_op' = "new_fetched"]_vars

\* The program has started on a cache that holds more messages than the
\* limit and displays the cached list.
C33_Witness ==
    /\ last_op = "new_cached"
    /\ Cardinality(cache.messages) > message_limit
    /\ messages # <<>>
    /\ \E tie \in TieOrders :
           messages = get_cached_messages(cache, message_limit, tie)

\* str::to_lowercase on the parts of ContentTypes and FileNames.
to_lowercase(t) ==
    CASE t \in {"IMAGE", "Image"} -> "image"
      [] t = "Video" -> "video"
      [] t = "AUDIO" -> "audio"
      [] t = "Text"  -> "text"
      [] t = "PNG"   -> "png"
      [] t = "Jpg"   -> "jpg"
      [] t = "MOV"   -> "mov"
      [] t = "OGG"   -> "ogg"
      [] t = "PDF"   -> "pdf"
      [] OTHER       -> t

\* C34: Attachment type derivation is case-insensitive.  The file_type of
\* every attachment parsed is the type of its content type's first part
\* when it has a content type, and otherwise the type of its file
\* extension, both taken in lower case; an unknown one gives Other.
C34_CaseInsensitiveFileType ==
    parsed # NotParsed =>
        parsed.file_type =
            IF parsed.content_type # NoContentType
            THEN MimeMatch(to_lowercase(parsed.content_type[1]))
            ELSE ExtensionMatch(to_lowercase(parsed.filename[Len(parsed.filename)]))

\* C35: Selection invariant.  Between the operations of App the selection
\* is None exactly when the displayed list is empty, and otherwise an
\* index below the length of the list.
C35_SelectionInvariant ==
    pc = "idle" =>
        IF messages = <<>> THEN selected_message = None
        ELSE selected_message \in 0..(Len(messages) - 1)

\* C36: Refresh timer.  The refresh clock is restarted by the completion
\* of a round and by no other step, a suppressed call of refresh_messages
\* leaves it alone, it advances only as time passes, and the timer starts
\* a round only when the clock shows at least 30 seconds: no automatic
\* round starts less than 30 seconds after the completion of the round
\* before it.
C36_RefreshTimer ==
    /\ [][(pc = "install" /\ pc' = "idle") => elapsed' = 0]_vars
    /\ [][elapsed' < elapsed =>
              (pc = "install" /\ pc' = "idle" /\ last_op' = "refresh_done")]_vars
    /\ [][elapsed' > elapsed =>
              (pc = "idle" /\ pc' = "idle" /\ rounds' = rounds)]_vars
    /\ [][(is_refreshing /\ RefreshWhileRefreshing) => elapsed' = elapsed]_vars
    /\ [][(last_op' = "refresh_auto" /\ rounds' = rounds + 1) =>
              elapsed >= RefreshSecs]_vars

\* A round that the timer started after an earlier round is about to
\* complete, the clock not yet restarted.
C36_Witness ==
    /\ last_op = "refresh_auto"
    /\ pc = "install"
    /\ rounds = 2
    /\ elapsed >= RefreshSecs

\* The entries send_message and send_message_non_blocking synthesize.
LocalEntries ==
    {Notice(text, source, len) :
        text \in {"Failed to send: x", "No provider configured: x"},
        source \in MessageSource, len \in 0..(MaxLimit + MaxNotices)}
    \cup {SendingEntry("Sending: x", len) : len \in 0..(MaxLimit + MaxNotices)}

\* C37: Locally synthesized entries exist only in the displayed list.  The
\* step that creates one leaves the cached messages, the attachments and
\* the watermarks unchanged; no entry of the kind is among the messages a
\* round hands to cache_messages, none has been persisted, and no row of
\* the cache is the row of one.
C37_LocalEntriesStayLocal ==
    /\ [][(messages' # messages /\ Range(messages') \cap LocalEntries # {}) =>
              cache' = cache]_vars
    /\ [](Range(new_messages) \cap LocalEntries = {})
    /\ [](upserted \cap LocalEntries = {})
    /\ [](\A e \in LocalEntries : MessageRow(e) \notin cache.messages)

\* A round that began with a local entry on display has written its new
\* messages to the cache, the entry still on display.
C37_Witness ==
    /\ pc = "sync"
    /\ cache.messages # cache_before.messages
    /\ Range(messages) \cap LocalEntries # {}

\* The attachment rows of the database db that refer to the message id mid.
AttachmentRowsOf(db, mid) ==
    SelectSeqBy(db.attachments, {r \in Range(db.attachments) : r.message_id = mid})

\* C38: Referential integrity of attachments.  After calls of
\* cache_messages that all succeeded, every attachment row refers to a
\* message row, and the attachment rows of a message row are those of the
\* version of the message last persisted under its id, none of an
\* overwritten version.
C38_AttachmentIntegrity ==
    faults = 0 =>
        /\ \A a \in Range(cache.attachments) :
               \E r \in cache.messages : r.id = a.message_id
        /\ \A r \in cache.messages :
               \E m \in upserted :
                   /\ MessageRow(m) = r
                   /\ AttachmentRowsOf(cache, r.id) =
                          [k \in 1..Len(m.attachments) |->
                              AttachmentRow(m.id, m.attachments[k])]

\* A message with attachments has been overwritten by a version without
\* any, in calls that all succeeded.
C38_Witness ==
    /\ faults = 0
    /\ \E old \in upserted : \E new \in upserted :
           /\ old.id = new.id
           /\ old.attachments # <<>>
           /\ new.attachments = <<>>
           /\ MessageRow(new) \in cache.messages

====
